---- MODULE Spec2Model ----
(***************************************************************************)
(* Model of AddDatasets/addFile.py: one invocation of main(), from         *)
(* argument parsing to the process exit.  Every function of the script is  *)
(* an operator computed as the code computes it; main() and                *)
(* upload_document() are stepped through by a program counter so that an   *)
(* exception or a user interrupt can arrive between any two calls.         *)
(*                                                                         *)
(* Strings that the code only compares with the empty string are TLA+      *)
(* strings; strings whose characters matter (the credential file's lines,  *)
(* the API key, the mentor id) are sequences of one-character strings.     *)
(***************************************************************************)
EXTENDS Integers, Sequences, FiniteSets, TLC

VARIABLES
    pc,              \* position in main() / upload_document()
    cmdline,         \* the command line of this invocation
    args,            \* argparse Namespace returned by parse_arguments()
    api_key,         \* local api_key of main()
    validated_path,  \* local validated_path of main()
    credFile,        \* the credential file load_api_key() found on disk
    targetFile,      \* the target file validate_file_path() found on disk
    fileOpen,        \* the handle f of `with open(file_path, 'rb') as f` is open
    sent,            \* requests handed to requests.post(), in order
    response,        \* local response of upload_document()
    exc,             \* exception in flight
    result,          \* value returned by upload_document()
    exit_code,       \* <<status>> once sys.exit(status) was called, else <<>>
    uncaught,        \* type of an exception that left main() unhandled
    log,             \* records emitted through the logging module
    raisedBy,        \* the call that raised exc into main(), or "interrupt"
    postExc,         \* what requests.post() raised, NoExc if it returned
    keyReads,        \* number of reads of the credential file
    returned         \* validation functions that returned without raising

vars == <<pc, cmdline, args, api_key, validated_path, credFile, targetFile, fileOpen,
          sent, response, exc, result, exit_code, uncaught, log, raisedBy, postExc,
          keyReads, returned>>

----------------------------------------------------------------------------
(* Bounds of the model *)

MaxKeyLen == 10     \* longest run of key characters in a credential line
MaxPad == 1         \* longest run of blanks around it

(* Program constants *)

MinKeyLen == 10             \* len(api_key) < 10
DefaultTimeout == 300       \* --timeout default
UuidLen == 36               \* len(mentor_id) != 36
UuidDashes == 4             \* mentor_id.count('-') != 4
max_size == 100 * 1024 * 1024

----------------------------------------------------------------------------
(* Generic helpers *)

Rep(c, n) == [i \in 1..n |-> c]

Whitespace == {" ", "\n", "\t"}

RECURSIVE lstrip(_)
lstrip(s) == IF s # <<>> /\ Head(s) \in Whitespace THEN lstrip(Tail(s)) ELSE s

RECURSIVE rstrip(_)
rstrip(s) ==
    IF s # <<>> /\ s[Len(s)] \in Whitespace
    THEN rstrip(SubSeq(s, 1, Len(s) - 1))
    ELSE s

\* str.strip()
strip(s) == rstrip(lstrip(s))

RECURSIVE Concat(_)
Concat(ss) == IF ss = <<>> THEN <<>> ELSE Head(ss) \o Concat(Tail(ss))

\* str.count(c)
count(s, c) == Cardinality({i \in 1..Len(s) : s[i] = c})

----------------------------------------------------------------------------
(* Exceptions.  classes lists the requests.exceptions base classes the     *)
(* exception is an instance of, which is what the except clauses test.     *)

NoExc == [type |-> "None", classes |-> {}, msg |-> "", data |-> <<>>]

Exc(t, cl, m, d) == [type |-> t, classes |-> cl, msg |-> m, data |-> d]

ConfigurationError(m, d) == Exc("ConfigurationError", {}, m, d)

DocumentUploadError(m, d) == Exc("DocumentUploadError", {}, m, d)

KeyboardInterrupt == Exc("KeyboardInterrupt", {}, "", <<>>)

(* Log records: the level, the constant text, and the values the f-string  *)
(* interpolates.  Every interpolated value is a text, a sequence of        *)
(* one-character or longer strings: Str makes one of a TLA+ string, Num    *)
(* formats a number.                                                       *)

Str(s) == <<s>>

Num(n) == <<ToString(n)>>

Rec(level, msg, data) == [level |-> level, msg |-> msg, data |-> data]

----------------------------------------------------------------------------
(* parse_arguments(): the command line as argparse sees it.  An option is  *)
(* <<>> when absent and <<value>> when given.                              *)

Uuid == [i \in 1..UuidLen |-> IF i \in {9, 14, 19, 24} THEN "-" ELSE "a"]

MentorIds == {<<>>, <<"a", "b", "c", "-", "1">>, Uuid}

Opt(S) == {<<>>} \cup {<<v>> : v \in S}

Argv ==
    [help : BOOLEAN,
     org_id : Opt({""}),
     user_id : Opt({"", "jasidel"}),
     mentor_id : Opt(MentorIds),
     file : Opt({"doc.pdf", "notes.xyz"}),
     credentials : Opt({}),
     base_url : Opt({}),
     timeout : Opt({-1, 0, 1}),
     verbose : BOOLEAN]

Default(opt, d) == IF opt = <<>> THEN d ELSE opt[1]

NoArgs == [org_id |-> "", user_id |-> "", mentor_id |-> <<>>, file |-> "",
           credentials |-> "", base_url |-> "", timeout |-> 0,
           verbose |-> FALSE]

\* parser.parse_args() with the defaults of the add_argument() calls
Namespace(argv) ==
    [org_id |-> Default(argv.org_id, "syracuse"),
     user_id |-> argv.user_id[1],
     mentor_id |-> argv.mentor_id[1],
     file |-> argv.file[1],
     credentials |-> Default(argv.credentials, "api_credentials.txt"),
     base_url |-> Default(argv.base_url, "https://base.manager.ai.syr.edu"),
     timeout |-> Default(argv.timeout, DefaultTimeout),
     verbose |-> argv.verbose]

\* The timeout test of parse_arguments without its parser.error() call.
parse_arguments_NoTimeoutCheck(argv) ==
    IF argv.help
    THEN [exit |-> <<0>>, args |-> NoArgs]
    ELSE IF argv.user_id = <<>> \/ argv.mentor_id = <<>> \/ argv.file = <<>>
    THEN [exit |-> <<2>>, args |-> NoArgs]
    ELSE [exit |-> <<>>, args |-> Namespace(argv)]

\* -h prints the help and exits 0; a missing required option and a timeout
\* below 1 go through parser.error(), which exits 2.
parse_arguments(argv) ==
    IF argv.help
    THEN [exit |-> <<0>>, args |-> NoArgs]
    ELSE IF argv.user_id = <<>> \/ argv.mentor_id = <<>> \/ argv.file = <<>>
    THEN [exit |-> <<2>>, args |-> NoArgs]
    ELSE IF Namespace(argv).timeout < 1
    THEN [exit |-> <<2>>, args |-> NoArgs]
    ELSE [exit |-> <<>>, args |-> Namespace(argv)]

----------------------------------------------------------------------------
(* validate_configuration() *)

validate_configuration(org_id, user_id, mentor_id) ==
    IF org_id = ""
    THEN [exc |-> ConfigurationError("Organization ID must be a non-empty string", <<>>),
          logs |-> <<>>]
    ELSE IF user_id = ""
    THEN [exc |-> ConfigurationError("User ID must be a non-empty string", <<>>),
          logs |-> <<>>]
    ELSE IF mentor_id = <<>>
    THEN [exc |-> ConfigurationError("Mentor ID must be a non-empty string", <<>>),
          logs |-> <<>>]
    ELSE [exc |-> NoExc,
          logs |->
            (IF Len(mentor_id) # UuidLen \/ count(mentor_id, "-") # UuidDashes
             THEN <<Rec("WARNING", "Mentor ID format looks unusual", <<mentor_id>>)>>
             ELSE <<>>)
            \o <<Rec("INFO", "Configuration validated", <<Str(org_id), Str(user_id)>>)>>]

----------------------------------------------------------------------------
(* load_api_key().  A credential file is missing, or exists and cannot be  *)
(* opened, or is a plain-text file holding lines.                          *)

KeyLine(pl, n, pr, nl) == Rep(" ", pl) \o Rep("k", n) \o Rep(" ", pr) \o nl

FirstLines ==
    {KeyLine(pl, n, pr, nl) :
        pl \in 0..MaxPad, n \in 0..MaxKeyLen, pr \in 0..MaxPad,
        nl \in {<<>>, <<"\n">>}}

\* a later line that would be a valid key on its own
LaterLine == Rep("z", MinKeyLen + 2)

CredFiles ==
    {[exists |-> FALSE, readable |-> FALSE, lines |-> <<>>],
     [exists |-> TRUE, readable |-> FALSE, lines |-> <<>>],
     [exists |-> TRUE, readable |-> TRUE, lines |-> <<>>]}
    \cup {[exists |-> TRUE, readable |-> TRUE, lines |-> <<l>>] :
            l \in FirstLines}
    \cup {[exists |-> TRUE, readable |-> TRUE, lines |-> <<l, LaterLine>>] :
            l \in {f \in FirstLines : f # <<>> /\ f[Len(f)] = "\n"}}

NoFile == [exists |-> FALSE, readable |-> FALSE, lines |-> <<>>]

\* f.read(): the whole file
read_all(lines) == Concat(lines)

\* f.readline(): the first line with its newline, "" at end of file
readline(lines) == IF lines = <<>> THEN <<>> ELSE lines[1]

\* the success log line with the key interpolated into it
loaded_logs_WithKey(key) == <<Rec("INFO", "API key loaded", <<key>>)>>

\* logger.info("API key loaded successfully")
loaded_logs(key) == <<Rec("INFO", "API key loaded successfully", <<>>)>>

\* reads counts the reads of the file's content
load_api_key(cred, credential_file) ==
    IF ~cred.exists
    THEN [exc |-> ConfigurationError("Credentials file not found", <<Str(credential_file)>>),
          key |-> <<>>, reads |-> 0, logs |-> <<>>]
    ELSE IF ~cred.readable
    THEN [exc |-> ConfigurationError("Error reading credentials file",
                                     <<Str("IOError"), Str(credential_file)>>),
          key |-> <<>>, reads |-> 0, logs |-> <<>>]
    ELSE LET key == strip(readline(cred.lines)) IN
         IF key = <<>>
         THEN [exc |-> ConfigurationError("API key is empty in credentials file", <<>>),
               key |-> <<>>, reads |-> 1, logs |-> <<>>]
         ELSE IF Len(key) < MinKeyLen
         THEN [exc |-> ConfigurationError("API key appears to be invalid (too short)", <<>>),
               key |-> <<>>, reads |-> 1, logs |-> <<>>]
         ELSE [exc |-> NoExc, key |-> key, reads |-> 1,
               logs |-> loaded_logs(key)]

----------------------------------------------------------------------------
(* validate_file_path().  What the file system holds at the target path.   *)

FileSizes == {0, 1, max_size - 1, max_size, max_size + 1, 2 * max_size}

Suffix(name) == IF name = "doc.pdf" THEN ".pdf" ELSE ".xyz"

TargetFiles ==
    {[exists |-> FALSE, is_file |-> FALSE, readable |-> FALSE, size |-> 0]}
    \cup [exists : {TRUE}, is_file : BOOLEAN, readable : BOOLEAN,
           size : FileSizes]

NoTarget == [exists |-> FALSE, is_file |-> FALSE, readable |-> FALSE, size |-> 0]

NoPath == [name |-> "", suffix |-> ""]

\* the size limit tested by >=
too_large_Ge(file_size) == file_size >= max_size

\* file_size > max_size
too_large(file_size) == file_size > max_size

validate_file_path(file, file_path) ==
    IF ~file.exists
    THEN [exc |-> ConfigurationError("File not found", <<Str(file_path)>>),
          path |-> NoPath, logs |-> <<>>]
    ELSE IF ~file.is_file
    THEN [exc |-> ConfigurationError("Path is not a file", <<Str(file_path)>>),
          path |-> NoPath, logs |-> <<>>]
    ELSE IF ~file.readable
    THEN [exc |-> ConfigurationError("File is not readable", <<Str(file_path)>>),
          path |-> NoPath, logs |-> <<>>]
    ELSE IF too_large(file.size)
    THEN [exc |-> ConfigurationError("File too large", <<Num(file.size)>>),
          path |-> NoPath, logs |-> <<>>]
    ELSE IF file.size = 0
    THEN [exc |-> ConfigurationError("File is empty", <<Str(file_path)>>),
          path |-> NoPath, logs |-> <<>>]
    ELSE [exc |-> NoExc,
          path |-> [name |-> file_path, suffix |-> Suffix(file_path)],
          logs |-> <<Rec("INFO", "File validated", <<Str(file_path), Num(file.size)>>)>>]

----------------------------------------------------------------------------
(* upload_document(): request construction *)

mime_types(file_extension) ==
    CASE file_extension = ".pdf" -> "application/pdf"
      [] file_extension = ".txt" -> "text/plain"
      [] file_extension = ".doc" -> "application/msword"
      [] file_extension = ".docx" ->
            "application/vnd.openxmlformats-officedocument.wordprocessingml.document"
      [] OTHER -> "application/octet-stream"

\* the f-string of the URL, as one text
Url(base_url, org_id, user_id) ==
    <<base_url, "/api/ai-index/orgs/", org_id, "/users/", user_id,
      "/documents/train/">>

\* the arguments of requests.post()
Request(a, file_path, key) ==
    [url |-> Url(a.base_url, a.org_id, a.user_id),
     headers |-> [Authorization |-> <<"Api-Token ">> \o key],
     files |-> [file |-> <<file_path.name, "f", mime_types(file_path.suffix)>>],
     data |-> [pathway |-> a.mentor_id, type |-> "file", name |-> file_path.name],
     timeout |-> a.timeout]

\* the log lines written before the file is opened
upload_prepare_logs(a, file_path) ==
    (IF mime_types(file_path.suffix) = "application/octet-stream"
     THEN <<Rec("WARNING", "Unknown file type, using generic MIME type",
                <<Str(file_path.suffix)>>)>>
     ELSE <<>>)
    \o <<Rec("INFO", "Uploading document", <<Str(file_path.name)>>),
          Rec("INFO", "Target URL", <<Url(a.base_url, a.org_id, a.user_id)>>),
          Rec("INFO", "Document type, MIME type",
              <<Str("file"), Str(mime_types(file_path.suffix))>>)>>

----------------------------------------------------------------------------
(* What the network can answer.  A body is its raw text and what           *)
(* json.loads makes of it: an object, another JSON value, or an error.     *)

Statuses == {200, 201, 204, 401, 500}

Bodies ==
    {[text |-> "{document_id: abc123}", json |-> "object",
      fields |-> {<<"document_id", "abc123">>}],
     [text |-> "{detail: invalid token}", json |-> "object",
      fields |-> {<<"detail", "invalid token">>}],
     [text |-> "[1, 2]", json |-> "array", fields |-> {}],
     [text |-> "<html>Bad Gateway</html>", json |-> "invalid", fields |-> {}],
     [text |-> "", json |-> "invalid", fields |-> {}]}

Responses == [status_code : Statuses, body : Bodies]

NoResponse == [status_code |-> 0, body |-> [text |-> "", json |-> "invalid", fields |-> {}]]

NoResult == [text |-> "", json |-> "none", fields |-> {}]

\* requests.exceptions: ReadTimeout(Timeout), ConnectTimeout(ConnectionError,
\* Timeout), ConnectionError, TooManyRedirects(RequestException); and an
\* exception that is no RequestException at all.
TransportErrors ==
    {Exc("ReadTimeout", {"Timeout", "RequestException"}, "Read timed out", <<>>),
     Exc("ConnectTimeout", {"ConnectionError", "Timeout", "RequestException"},
         "Connection timed out", <<>>),
     Exc("ConnectionError", {"ConnectionError", "RequestException"},
         "Connection refused", <<>>),
     Exc("TooManyRedirects", {"RequestException"}, "Exceeded 30 redirects", <<>>),
     Exc("MemoryError", {}, "", <<>>)}

\* Response.json(): requests.exceptions.JSONDecodeError derives from
\* InvalidJSONError, a RequestException.
response_json(resp) ==
    IF resp.body.json = "invalid"
    THEN [exc |-> Exc("JSONDecodeError", {"RequestException"}, "Expecting value", <<>>),
          value |-> NoResult]
    ELSE [exc |-> NoExc, value |-> resp.body]

\* str() of a parsed body, as the f-string formats it
Repr(v) ==
    IF v.json = "object"
    THEN LET f == CHOOSE f \in v.fields : TRUE IN
         <<"{'", f[1], "': '", f[2], "'}">>
    ELSE <<v.text>>

\* dict.get(key, default)
get(d, key, default) ==
    IF \E f \in d.fields : f[1] = key
    THEN (CHOOSE f \in d.fields : f[1] = key)[2]
    ELSE default

----------------------------------------------------------------------------
(* upload_document(): response classification and exception mapping *)

\* the status test of classify accepting 200 alone
success_status_Only200(status_code) == status_code = 200

\* response.status_code in [200, 201]
success_status(status_code) == status_code \in {200, 201}

classify(resp) ==
    IF success_status(resp.status_code)
    THEN LET j == response_json(resp) IN
         IF j.exc # NoExc
         THEN [exc |-> j.exc, value |-> NoResult, logs |-> <<>>]
         ELSE IF j.value.json # "object"
         THEN \* result.get on a value that is no dict
              [exc |-> Exc("AttributeError", {}, "object has no attribute 'get'", <<>>),
               value |-> NoResult,
               logs |-> <<Rec("INFO", "Upload successful!", <<>>)>>]
         ELSE [exc |-> NoExc, value |-> j.value,
               logs |-> <<Rec("INFO", "Upload successful!", <<>>),
                          Rec("INFO", "Document ID",
                              <<Str(get(j.value, "document_id", "N/A"))>>)>>]
    ELSE LET j == response_json(resp)
             detail == IF j.exc = NoExc
                       THEN <<Str("Details"), Repr(j.value)>>
                       ELSE <<Str("Response"), Str(resp.body.text)>>
             data == <<Num(resp.status_code)>> \o detail
         IN [exc |-> DocumentUploadError("Upload failed with status", data),
             value |-> NoResult,
             logs |-> <<Rec("ERROR", "Upload failed with status", data)>>]

\* the except clauses with ConnectionError tested first
upload_except_ConnectionFirst(e, timeout) ==
    IF "ConnectionError" \in e.classes
    THEN DocumentUploadError("Connection error", <<Str(e.msg)>>)
    ELSE IF "Timeout" \in e.classes
    THEN DocumentUploadError("Upload timed out", <<Num(timeout)>>)
    ELSE IF "RequestException" \in e.classes
    THEN DocumentUploadError("Request failed", <<Str(e.msg)>>)
    ELSE e

\* the except clauses of upload_document, in their order
upload_except(e, timeout) ==
    IF "Timeout" \in e.classes
    THEN DocumentUploadError("Upload timed out", <<Num(timeout)>>)
    ELSE IF "ConnectionError" \in e.classes
    THEN DocumentUploadError("Connection error", <<Str(e.msg)>>)
    ELSE IF "RequestException" \in e.classes
    THEN DocumentUploadError("Request failed", <<Str(e.msg)>>)
    ELSE e

----------------------------------------------------------------------------
(* main(): the except clauses and the order of the calls *)

\* main() without its except KeyboardInterrupt clause
main_except_NoInterruptClause(e) ==
    CASE e.type = "ConfigurationError" ->
            [code |-> 1,
             logs |-> <<Rec("ERROR", "Configuration Error", <<Str(e.msg)>> \o e.data),
                        Rec("ERROR", "Please check your settings and try again.", <<>>)>>]
      [] e.type = "DocumentUploadError" ->
            [code |-> 1,
             logs |-> <<Rec("ERROR", "Upload Error", <<Str(e.msg)>> \o e.data)>>]
      [] OTHER ->
            [code |-> 1,
             logs |-> <<Rec("ERROR", "Unexpected error", <<Str(e.type), Str(e.msg)>> \o e.data)>>]

\* the except clauses of main(), in their order
main_except(e) ==
    CASE e.type = "ConfigurationError" ->
            [code |-> 1,
             logs |-> <<Rec("ERROR", "Configuration Error", <<Str(e.msg)>> \o e.data),
                        Rec("ERROR", "Please check your settings and try again.", <<>>)>>]
      [] e.type = "DocumentUploadError" ->
            [code |-> 1,
             logs |-> <<Rec("ERROR", "Upload Error", <<Str(e.msg)>> \o e.data)>>]
      [] e.type = "KeyboardInterrupt" ->
            [code |-> 130,
             logs |-> <<Rec("WARNING", "Script interrupted by user", <<>>)>>]
      [] OTHER ->
            [code |-> 1,
             logs |-> <<Rec("ERROR", "Unexpected error", <<Str(e.type), Str(e.msg)>> \o e.data)>>]

\* main() going on to the next call whatever the last one raised
main_next_IgnoreErrors(stage, e) ==
    CASE stage = "validate_configuration" -> "load_api_key"
      [] stage = "load_api_key" -> "validate_file_path"
      [] stage = "validate_file_path" -> "upload_document"
      [] stage = "upload_document" -> "main_return"

\* where main() goes after the call `stage` returned (e = NoExc) or raised e
main_next(stage, e) ==
    IF e # NoExc
    THEN "main_except"
    ELSE CASE stage = "validate_configuration" -> "load_api_key"
           [] stage = "load_api_key" -> "validate_file_path"
           [] stage = "validate_file_path" -> "upload_document"
           [] stage = "upload_document" -> "main_return"

----------------------------------------------------------------------------
(* logging: the root logger passes INFO and above, DEBUG too once          *)
(* main() has seen --verbose.                                              *)

Emit(verbose, records) ==
    SelectSeq(records, LAMBDA r : r.level # "DEBUG" \/ verbose)

\* the `with open(...) as f` block leaving the handle open when the body raised
with_exit_LeakOnError(open, e) == IF e = NoExc THEN FALSE ELSE open

\* leaving the `with open(...) as f` block closes f, whether or not its body raised
with_exit(open, e) == FALSE

----------------------------------------------------------------------------
(* The state machine *)

NoCmd == [help |-> FALSE, org_id |-> <<>>, user_id |-> <<>>, mentor_id |-> <<>>,
          file |-> <<>>, credentials |-> <<>>, base_url |-> <<>>,
          timeout |-> <<>>, verbose |-> FALSE]

Init ==
    /\ pc = "parse_arguments"
    /\ cmdline = NoCmd
    /\ args = NoArgs
    /\ api_key = <<>>
    /\ validated_path = NoPath
    /\ credFile = NoFile
    /\ targetFile = NoTarget
    /\ fileOpen = FALSE
    /\ sent = <<>>
    /\ response = NoResponse
    /\ exc = NoExc
    /\ result = NoResult
    /\ exit_code = <<>>
    /\ uncaught = ""
    /\ log = <<>>
    /\ raisedBy = ""
    /\ postExc = NoExc
    /\ keyReads = 0
    /\ returned = {}

\* main(): args = parse_arguments(); argparse ends the process itself on -h
\* and on parser.error()
ParseArguments ==
    /\ pc = "parse_arguments"
    /\ \E a \in Argv :
          LET r == parse_arguments(a) IN
          /\ cmdline' = a
          /\ args' = r.args
          /\ exit_code' = r.exit
          /\ pc' = IF r.exit # <<>> THEN "exited" ELSE "configure_logging"
    /\ UNCHANGED <<api_key, validated_path, credFile, targetFile, fileOpen, sent,
                   response, exc, result, uncaught, log, raisedBy, postExc,
                   keyReads, returned>>

\* main(): the verbose switch and the banner, before the try block
ConfigureLogging ==
    /\ pc = "configure_logging"
    /\ log' = log \o Emit(args.verbose,
          <<Rec("DEBUG", "Verbose logging enabled", <<>>),
            Rec("INFO", "============", <<>>),
            Rec("INFO", "Document Upload Script Started", <<>>),
            Rec("INFO", "============", <<>>),
            Rec("INFO", "Organization", <<Str(args.org_id)>>),
            Rec("INFO", "User", <<Str(args.user_id)>>),
            Rec("INFO", "Mentor ID", <<args.mentor_id>>),
            Rec("INFO", "File", <<Str(args.file)>>),
            Rec("INFO", "Base URL", <<Str(args.base_url)>>),
            Rec("INFO", "Timeout", <<Num(args.timeout)>>)>>)
    /\ pc' = "validate_configuration"
    /\ UNCHANGED <<cmdline, args, api_key, validated_path, credFile, targetFile,
                   fileOpen, sent, response, exc, result, exit_code, uncaught,
                   raisedBy, postExc, keyReads, returned>>

ValidateConfiguration ==
    /\ pc = "validate_configuration"
    /\ LET r == validate_configuration(args.org_id, args.user_id, args.mentor_id) IN
       /\ log' = log \o Emit(args.verbose, r.logs)
       /\ exc' = r.exc
       /\ raisedBy' = IF r.exc # NoExc THEN "validate_configuration" ELSE raisedBy
       /\ returned' = IF r.exc = NoExc
                      THEN returned \cup {"validate_configuration"}
                      ELSE returned
       /\ pc' = main_next("validate_configuration", r.exc)
    /\ UNCHANGED <<cmdline, args, api_key, validated_path, credFile, targetFile,
                   fileOpen, sent, response, result, exit_code, uncaught,
                   postExc, keyReads>>

LoadApiKey ==
    /\ pc = "load_api_key"
    /\ \E cred \in CredFiles :
          LET r == load_api_key(cred, args.credentials) IN
          /\ credFile' = cred
          /\ api_key' = r.key
          /\ keyReads' = keyReads + r.reads
          /\ log' = log \o Emit(args.verbose, r.logs)
          /\ exc' = r.exc
          /\ raisedBy' = IF r.exc # NoExc THEN "load_api_key" ELSE raisedBy
          /\ returned' = IF r.exc = NoExc
                         THEN returned \cup {"load_api_key"}
                         ELSE returned
          /\ pc' = main_next("load_api_key", r.exc)
    /\ UNCHANGED <<cmdline, args, validated_path, targetFile, fileOpen, sent,
                   response, result, exit_code, uncaught, postExc>>

ValidateFilePath ==
    /\ pc = "validate_file_path"
    /\ \E file \in TargetFiles :
          LET r == validate_file_path(file, args.file) IN
          /\ targetFile' = file
          /\ validated_path' = r.path
          /\ log' = log \o Emit(args.verbose, r.logs)
          /\ exc' = r.exc
          /\ raisedBy' = IF r.exc # NoExc THEN "validate_file_path" ELSE raisedBy
          /\ returned' = IF r.exc = NoExc
                         THEN returned \cup {"validate_file_path"}
                         ELSE returned
          /\ pc' = main_next("validate_file_path", r.exc)
    /\ UNCHANGED <<cmdline, args, api_key, credFile, fileOpen, sent, response,
                   result, exit_code, uncaught, postExc, keyReads>>

\* upload_document(): URL, headers, MIME type and the three log lines
UploadPrepare ==
    /\ pc = "upload_document"
    /\ log' = log \o Emit(args.verbose, upload_prepare_logs(args, validated_path))
    /\ pc' = "upload_open"
    /\ UNCHANGED <<cmdline, args, api_key, validated_path, credFile, targetFile,
                   fileOpen, sent, response, exc, result, exit_code, uncaught,
                   raisedBy, postExc, keyReads, returned>>

\* open(file_path, 'rb') succeeds
UploadOpen ==
    /\ pc = "upload_open"
    /\ fileOpen' = TRUE
    /\ pc' = "upload_post"
    /\ UNCHANGED <<cmdline, args, api_key, validated_path, credFile, targetFile,
                   sent, response, exc, result, exit_code, uncaught, log,
                   raisedBy, postExc, keyReads, returned>>

\* open(file_path, 'rb') raises: the file went away after it was validated
UploadOpenFails ==
    /\ pc = "upload_open"
    /\ exc' = Exc("FileNotFoundError", {}, "No such file or directory",
                  <<Str(validated_path.name)>>)
    /\ pc' = "upload_except"
    /\ UNCHANGED <<cmdline, args, api_key, validated_path, credFile, targetFile,
                   fileOpen, sent, response, result, exit_code, uncaught, log,
                   raisedBy, postExc, keyReads, returned>>

\* requests.post() returns a response
UploadPostResponds ==
    /\ pc = "upload_post"
    /\ sent' = Append(sent, Request(args, validated_path, api_key))
    /\ \E r \in Responses :
          /\ response' = r
          /\ log' = log \o Emit(args.verbose,
                <<Rec("DEBUG", "Starting new connection", <<Str(args.base_url)>>),
                  Rec("DEBUG", "POST",
                      <<Url(args.base_url, args.org_id, args.user_id),
                        Num(r.status_code)>>)>>)
    /\ pc' = "with_exit"
    /\ UNCHANGED <<cmdline, args, api_key, validated_path, credFile, targetFile,
                   fileOpen, exc, result, exit_code, uncaught, raisedBy, postExc,
                   keyReads, returned>>

\* requests.post() raises
UploadPostRaises ==
    /\ pc = "upload_post"
    /\ sent' = Append(sent, Request(args, validated_path, api_key))
    /\ \E e \in TransportErrors :
          /\ exc' = e
          /\ postExc' = e
    /\ log' = log \o Emit(args.verbose,
          <<Rec("DEBUG", "Starting new connection", <<Str(args.base_url)>>)>>)
    /\ pc' = "with_exit"
    /\ UNCHANGED <<cmdline, args, api_key, validated_path, credFile, targetFile,
                   fileOpen, response, result, exit_code, uncaught, raisedBy,
                   keyReads, returned>>

\* the end of the with block, reached by fall-through or by an exception
WithExit ==
    /\ pc = "with_exit"
    /\ fileOpen' = with_exit(fileOpen, exc)
    /\ pc' = IF exc = NoExc THEN "classify" ELSE "upload_except"
    /\ UNCHANGED <<cmdline, args, api_key, validated_path, credFile, targetFile,
                   sent, response, exc, result, exit_code, uncaught, log,
                   raisedBy, postExc, keyReads, returned>>

\* the status test, and the return of upload_document when nothing is raised
Classify ==
    /\ pc = "classify"
    /\ LET r == classify(response) IN
       /\ log' = log \o Emit(args.verbose, r.logs)
       /\ exc' = r.exc
       /\ result' = r.value
       /\ returned' = IF r.exc = NoExc
                      THEN returned \cup {"upload_document"}
                      ELSE returned
       /\ pc' = IF r.exc = NoExc
                THEN main_next("upload_document", NoExc)
                ELSE "upload_except"
    /\ UNCHANGED <<cmdline, args, api_key, validated_path, credFile, targetFile,
                   fileOpen, sent, response, exit_code, uncaught, raisedBy,
                   postExc, keyReads>>

\* the except clauses of upload_document; what they do not catch goes on to main()
UploadExcept ==
    /\ pc = "upload_except"
    /\ exc' = upload_except(exc, args.timeout)
    /\ raisedBy' = IF exc.type = "KeyboardInterrupt"
                   THEN "interrupt"
                   ELSE "upload_document"
    /\ pc' = "main_except"
    /\ UNCHANGED <<cmdline, args, api_key, validated_path, credFile, targetFile,
                   fileOpen, sent, response, result, exit_code, uncaught, log,
                   postExc, keyReads, returned>>

\* main(): the success banner and return 0
MainReturn ==
    /\ pc = "main_return"
    /\ log' = log \o Emit(args.verbose,
          <<Rec("INFO", "============", <<>>),
            Rec("INFO", "Script completed successfully!", <<>>),
            Rec("INFO", "============", <<>>)>>)
    /\ exit_code' = <<0>>
    /\ pc' = "exited"
    /\ UNCHANGED <<cmdline, args, api_key, validated_path, credFile, targetFile,
                   fileOpen, sent, response, exc, result, uncaught, raisedBy,
                   postExc, keyReads, returned>>

\* main(): the except clauses; sys.exit() gets the code returned
MainExcept ==
    /\ pc = "main_except"
    /\ LET r == main_except(exc) IN
       /\ log' = log \o Emit(args.verbose, r.logs)
       /\ exit_code' = <<r.code>>
    /\ pc' = "exited"
    /\ UNCHANGED <<cmdline, args, api_key, validated_path, credFile, targetFile,
                   fileOpen, sent, response, exc, result, uncaught, raisedBy,
                   postExc, keyReads, returned>>

(* A user interrupt (SIGINT) raises KeyboardInterrupt in whatever main() is   *)
(* executing.                                                                 *)

\* the lines of main()'s try block that are not inside upload_document's try
TryStages == {"validate_configuration", "load_api_key", "validate_file_path",
              "upload_document", "main_return"}

\* inside main()'s try block: the except KeyboardInterrupt clause gets it
InterruptInTry ==
    /\ pc \in TryStages
    /\ exc' = KeyboardInterrupt
    /\ raisedBy' = "interrupt"
    /\ pc' = "main_except"
    /\ UNCHANGED <<cmdline, args, api_key, validated_path, credFile, targetFile,
                   fileOpen, sent, response, result, exit_code, uncaught, log,
                   postExc, keyReads, returned>>

\* inside upload_document's try block; during the request the with block is
\* left first
InterruptInUpload ==
    /\ pc \in {"upload_open", "upload_post", "classify"}
    /\ exc' = KeyboardInterrupt
    /\ pc' = IF pc = "upload_post" THEN "with_exit" ELSE "upload_except"
    /\ UNCHANGED <<cmdline, args, api_key, validated_path, credFile, targetFile,
                   fileOpen, sent, response, result, exit_code, uncaught, log,
                   raisedBy, postExc, keyReads, returned>>

\* before the try block, or inside one of main()'s except clauses: nothing
\* catches it and the interpreter ends with the traceback
InterruptOutsideTry ==
    /\ pc \in {"parse_arguments", "configure_logging", "main_except"}
    /\ uncaught' = "KeyboardInterrupt"
    /\ pc' = "exited"
    /\ UNCHANGED <<cmdline, args, api_key, validated_path, credFile, targetFile,
                   fileOpen, sent, response, exc, result, exit_code, log,
                   raisedBy, postExc, keyReads, returned>>

Next ==
    \/ ParseArguments
    \/ ConfigureLogging
    \/ ValidateConfiguration
    \/ LoadApiKey
    \/ ValidateFilePath
    \/ UploadPrepare
    \/ UploadOpen
    \/ UploadOpenFails
    \/ UploadPostResponds
    \/ UploadPostRaises
    \/ WithExit
    \/ Classify
    \/ UploadExcept
    \/ MainReturn
    \/ MainExcept
    \/ InterruptInTry
    \/ InterruptInUpload
    \/ InterruptOutsideTry

Spec == Init /\ [][Next]_vars

----------------------------------------------------------------------------
(* Properties *)

Validations == {"validate_configuration", "load_api_key", "validate_file_path"}

\* the call f of main() has been made and has returned or raised
Called(f) == f \in returned \/ raisedBy = f

\* the command line gives a timeout below 1
BadTimeout == cmdline.timeout # <<>> /\ cmdline.timeout[1] < 1

\* C1: a request is handed to requests.post() only after validate_configuration,
\* load_api_key and validate_file_path have all returned without raising, and
\* once one of them has raised ConfigurationError no request is ever sent.
C1_NoRequestBeforeValidation ==
    /\ sent # <<>> => Validations \subseteq returned
    /\ (raisedBy \in Validations /\ exc.type = "ConfigurationError") =>
            (sent = <<>> /\ pc \in {"main_except", "exited"})

\* C1 witness: the request went out, after the three validations returned
C1_Witness == sent # <<>> /\ Validations \subseteq returned /\ pc = "with_exit"

C5_HandleClosed ==
    /\ fileOpen => pc \in {"upload_post", "with_exit"}
    /\ pc \in {"classify", "upload_except", "main_return", "main_except", "exited"}
            => ~fileOpen

\* C5 witness: the request raised a transport error and the handle is closed
C5_Witness ==
    pc = "main_except" /\ postExc # NoExc /\ sent # <<>> /\ ~fileOpen

Classified ==
    /\ response # NoResponse
    /\ pc \in {"main_return", "main_except", "exited"}
    /\ raisedBy # "interrupt"

\* C3: a 200 or 201 response whose body parses to a structured map is
\* returned as the success result, the parsed body unchanged; every other
\* status raises DocumentUploadError carrying the status code and the parsed
\* body, or the raw text when the body does not parse; a response with
\* another status is never returned as success.
C3_ResponseClassified ==
    Classified =>
        /\ (response.status_code \in {200, 201} /\ response.body.json = "object") =>
                /\ "upload_document" \in returned
                /\ result.fields = response.body.fields
                /\ raisedBy # "upload_document"
        /\ response.status_code \notin {200, 201} =>
                /\ "upload_document" \notin returned
                /\ result = NoResult
                /\ raisedBy = "upload_document"
                /\ exc.type = "DocumentUploadError"
                /\ exc.data[1] = <<ToString(response.status_code)>>
                /\ exc.data[3] =
                      IF response.body.json = "invalid"
                      THEN <<response.body.text>>
                      ELSE Repr(response.body)

\* C3 witness: a 201 response with a document_id, returned as the result
C3_Witness ==
    /\ pc = "main_return" /\ response.status_code = 201
    /\ <<"document_id", "abc123">> \in result.fields

\* C4: a 200 or 201 response whose body is not a structured map makes
\* upload_document raise DocumentUploadError: it returns no success result
\* and lets no exception of another kind reach its caller.
C4_MalformedSuccessIsUploadError ==
    (Classified /\ response.status_code \in {200, 201}
                /\ response.body.json # "object") =>
        /\ "upload_document" \notin returned
        /\ exc.type = "DocumentUploadError"

\* C7: when requests.post() raises, a Timeout is reported as a timeout, also
\* when it is a ConnectionError too; a ConnectionError that is no Timeout as
\* a connection error; any other RequestException as a failed request; the
\* three messages differ.
C7_TransportErrorsClassified ==
    (postExc # NoExc /\ pc \in {"main_except", "exited"}) =>
        /\ "Timeout" \in postExc.classes =>
                /\ exc.type = "DocumentUploadError"
                /\ exc.msg = "Upload timed out"
                /\ exc.data = <<<<ToString(args.timeout)>>>>
        /\ ("ConnectionError" \in postExc.classes
                /\ "Timeout" \notin postExc.classes) =>
                /\ exc.type = "DocumentUploadError"
                /\ exc.msg = "Connection error"
        /\ (postExc.classes = {"RequestException"}) =>
                /\ exc.type = "DocumentUploadError"
                /\ exc.msg = "Request failed"

\* C7 witness: a connect timeout, reported as a timeout
C7_Witness ==
    /\ postExc.type = "ConnectTimeout" /\ pc = "main_except"
    /\ exc.msg = "Upload timed out"

\* what C8 says makes a target file invalid
C8_Invalid(f) ==
    \/ ~f.exists
    \/ ~f.is_file
    \/ ~f.readable
    \/ f.size = 0
    \/ f.size > 104857600

\* C8: validate_file_path raises ConfigurationError exactly when the path
\* does not exist, is no regular file, is not readable, has size 0 or has a
\* size above 104,857,600 bytes; otherwise it returns; and no request is sent
\* for a file above the limit.
C8_FileValidation ==
    /\ Called("validate_file_path") =>
            /\ C8_Invalid(targetFile) <=>
                    (raisedBy = "validate_file_path" /\ exc.type = "ConfigurationError")
            /\ ~C8_Invalid(targetFile) <=> "validate_file_path" \in returned
            /\ targetFile.size > 104857600 => sent = <<>>
    /\ ~Called("validate_file_path") => targetFile = NoTarget

\* C8 witness: a file of exactly 104,857,600 bytes passed
C8_Witness ==
    /\ "validate_file_path" \in returned
    /\ targetFile.size = 104857600

\* the first line of the credential file, trimmed
C9_TrimmedFirstLine(f) == IF f.lines = <<>> THEN <<>> ELSE strip(f.lines[1])

\* C9: load_api_key raises ConfigurationError when the credential file is
\* missing or unreadable or when its first line, trimmed, is shorter than 10
\* characters, whatever the later lines hold; otherwise it returns exactly
\* the trimmed first line.
C9_KeyLoading ==
    Called("load_api_key") =>
        LET key == C9_TrimmedFirstLine(credFile)
            bad == ~credFile.exists \/ ~credFile.readable \/ Len(key) < 10
        IN /\ bad <=> (raisedBy = "load_api_key" /\ exc.type = "ConfigurationError")
           /\ bad => api_key = <<>> /\ "load_api_key" \notin returned
           /\ ~bad => api_key = key /\ "load_api_key" \in returned
           /\ api_key # <<>> =>
                  Head(api_key) \notin Whitespace
                  /\ api_key[Len(api_key)] \notin Whitespace

\* C9 witness: the first line is too short though a later line holds a key
C9_Witness ==
    /\ raisedBy = "load_api_key"
    /\ Len(credFile.lines) = 2
    /\ Len(strip(credFile.lines[2])) >= 10

\* the text t holds the text k as a contiguous part
Contains(t, k) ==
    \E i \in 1..(Len(t) - Len(k) + 1) : SubSeq(t, i, i + Len(k) - 1) = k

\* the key loaded occurs in one of the interpolated values
KeyIn(data) == \E i \in 1..Len(data) : Contains(data[i], api_key)

====
